---- MODULE Spec2Model ----
(***************************************************************************)
(* Dual-stream training step of DefaultTrainer (defrcn/engine/defaults.py) *)
(* together with the gradient-vector helpers assign_grads / flatten_grads. *)
(*                                                                         *)
(* Floating-point scalars are modelled as exact extended rationals         *)
(* <<n, d>>: d > 0 is the fraction n/d in lowest terms, <<1, 0>> is +inf,  *)
(* <<-1, 0>> is -inf and <<0, 0>> is NaN, so that the unguarded divisions  *)
(* of run_step produce what IEEE arithmetic produces (no exception).       *)
(***************************************************************************)
EXTENDS Integers, Sequences, FiniteSets, TLC

\* ------------------------------------------------------------------ bounds
\* Longest run modelled: max_iter - start_iter <= MaxSteps.
MaxSteps == 3

\* ------------------------------------------------------- program constants
\* `if self.iter > 8000: return`
Ceiling == 8000

\* ------------------------------------------------------------ evaluation
\* Bind the value of an expression once.  TLC evaluates an operator argument
\* again at each of its uses; an operator that uses a compound argument more
\* than once binds it through these.
Let1(x, F(_)) == CHOOSE r \in {F(a) : a \in {x}} : TRUE

Let2(x, y, F(_, _)) == CHOOSE r \in {F(a, b) : a \in {x}, b \in {y}} : TRUE

\* ------------------------------------------------- extended rational numbers
Abs(x) == IF x < 0 THEN -x ELSE x

Sgn(x) == IF x > 0 THEN 1 ELSE IF x < 0 THEN -1 ELSE 0

RECURSIVE GCD(_, _)
GCD(x, y) == Let2(x, y, LAMBDA a, b : IF b = 0 THEN a ELSE GCD(b, a % b))

Norm(x, y) == Let2(x, y, LAMBDA n, d :
    IF d = 0 THEN <<Sgn(n), 0>>
    ELSE Let2(GCD(Abs(n), Abs(d)), Sgn(d), LAMBDA g, s :
            <<(s * n) \div g, (s * d) \div g>>))

Q(n, d) == Norm(n, d)

Zero == <<0, 1>>
One == <<1, 1>>
NaN == <<0, 0>>
PosInf == <<1, 0>>
NegInf == <<-1, 0>>

IsNaN(a) == a[1] = 0 /\ a[2] = 0
IsInf(a) == a[1] # 0 /\ a[2] = 0
IsFinite(a) == a[2] # 0

Neg(x) == Let1(x, LAMBDA a : <<-a[1], a[2]>>)

Add(x, y) == Let2(x, y, LAMBDA a, b :
    IF IsNaN(a) \/ IsNaN(b) THEN NaN
    ELSE IF IsInf(a) /\ IsInf(b) THEN (IF a[1] = b[1] THEN a ELSE NaN)
    ELSE IF IsInf(a) THEN a
    ELSE IF IsInf(b) THEN b
    ELSE Let1((a[2] \div GCD(a[2], b[2])) * b[2], LAMBDA l :
            Norm(a[1] * (l \div a[2]) + b[1] * (l \div b[2]), l)))

Sub(a, b) == Add(a, Neg(b))

Mul(x, y) == Let2(x, y, LAMBDA a, b :
    IF IsNaN(a) \/ IsNaN(b) THEN NaN
    ELSE IF ~IsFinite(a) \/ ~IsFinite(b) THEN <<Sgn(a[1] * b[1]), 0>>
    ELSE Let2(GCD(Abs(a[1]), b[2]), GCD(Abs(b[1]), a[2]), LAMBDA g1, g2 :
            Norm((a[1] \div g1) * (b[1] \div g2), (a[2] \div g2) * (b[2] \div g1))))

\* 1/b; 1/(+0) = +inf, 1/inf = 0, 1/NaN = NaN.
Recip(x) == Let1(x, LAMBDA b :
    IF IsNaN(b) THEN NaN
    ELSE IF IsInf(b) THEN Zero
    ELSE IF b[1] = 0 THEN PosInf
    ELSE Norm(b[2], b[1]))

\* a / b; 0/0 = NaN, x/0 = +-inf.
Div(x, y) == Let2(x, y, LAMBDA a, b :
    IF IsFinite(a) /\ a[1] = 0 /\ IsFinite(b) /\ b[1] = 0 THEN NaN
    ELSE Mul(a, Recip(b)))

\* a > b; every comparison with NaN is false.
Gt(x, y) == Let2(x, y, LAMBDA a, b :
    IF IsNaN(a) \/ IsNaN(b) THEN FALSE
    ELSE IF IsInf(a) /\ IsInf(b) THEN a[1] > b[1]
    ELSE IF IsInf(a) THEN a[1] > 0
    ELSE IF IsInf(b) THEN b[1] < 0
    ELSE Let1(GCD(a[2], b[2]), LAMBDA g :
            a[1] * (b[2] \div g) > b[1] * (a[2] \div g)))

Geq(x, y) == Let2(x, y, LAMBDA a, b :
    ~IsNaN(a) /\ ~IsNaN(b) /\ (a = b \/ Gt(a, b)))

\* ----------------------------------------------------------- vectors
RECURSIVE DotFrom(_, _, _)
DotFrom(u, v, i) ==
    IF i > Len(u) THEN Zero
    ELSE Add(Mul(u[i], v[i]), DotFrom(u, v, i + 1))

Dot(x, y) == Let2(x, y, LAMBDA u, v : DotFrom(u, v, 1))

\* torch.square(torch.norm(g)): the square of the square root of the sum of
\* squares, which over exact numbers is the sum of squares.
SquaredNorm(x) == Let1(x, LAMBDA g : Dot(g, g))

Scale(x, y) == Let2(x, y, LAMBDA c, v : [i \in 1..Len(v) |-> Mul(c, v[i])])

VecAdd(x, y) == Let2(x, y, LAMBDA u, v : [i \in 1..Len(u) |-> Add(u[i], v[i])])

\* ------------------------------------------------------------ the model
\* A parameter without a gradient has `.grad is None`; every tensor of the
\* layouts has at least one element, so the empty sequence stands for None.
None == <<>>

\* The entries of model.state_dict(keep_vars=True), in enumeration order.
\* isParam: a parameter (also enumerated by named_parameters) or a buffer;
\* stat: the key contains 'running_mean', 'running_var' or
\* 'num_batches_tracked'; requires_grad: backward accumulates into .grad.
LayoutA ==
    << [name |-> "backbone.weight", isParam |-> TRUE, stat |-> FALSE,
        requires_grad |-> TRUE, numel |-> 1],
       [name |-> "backbone.bn.running_mean", isParam |-> FALSE, stat |-> TRUE,
        requires_grad |-> FALSE, numel |-> 1],
       [name |-> "backbone.frozen.weight", isParam |-> TRUE, stat |-> FALSE,
        requires_grad |-> FALSE, numel |-> 1],
       [name |-> "head.weight", isParam |-> TRUE, stat |-> FALSE,
        requires_grad |-> TRUE, numel |-> 1] >>

LayoutB ==
    << [name |-> "head.bn.num_batches_tracked", isParam |-> FALSE, stat |-> TRUE,
        requires_grad |-> FALSE, numel |-> 1],
       [name |-> "head.weight", isParam |-> TRUE, stat |-> FALSE,
        requires_grad |-> TRUE, numel |-> 2] >>

Layouts == {LayoutA, LayoutB}

\* A freshly built model: no gradient yet; a value is the sequence of
\* gradient slices the optimizer has applied to the initial tensor.
build_model(layout) ==
    [i \in 1..Len(layout) |->
        [name |-> layout[i].name, isParam |-> layout[i].isParam,
         stat |-> layout[i].stat, requires_grad |-> layout[i].requires_grad,
         numel |-> layout[i].numel, value |-> <<>>, grad |-> None]]

Values(m) == [i \in 1..Len(m) |-> m[i].value]

Grads(m) == [i \in 1..Len(m) |-> m[i].grad]

\* optimizer.zero_grad(): every gradient buffer that exists is zeroed in
\* place; a parameter that has none keeps none.
zero_grad(x) == Let1(x, LAMBDA m :
    [i \in 1..Len(m) |->
        IF m[i].grad = None THEN m[i]
        ELSE [m[i] EXCEPT !.grad = [j \in 1..m[i].numel |-> Zero]]])

\* Number of gradient scalars that the trainable parameters before entry i hold.
RECURSIVE TrainableOffset(_, _)
TrainableOffset(m, i) ==
    IF i <= 1 THEN 0
    ELSE TrainableOffset(m, i - 1)
         + (IF m[i - 1].isParam /\ m[i - 1].requires_grad THEN m[i - 1].numel ELSE 0)

\* loss.backward(): the gradient g of the loss (one scalar per trainable
\* parameter element) is accumulated into the gradient buffers.
backward(x, y) == Let2(x, y, LAMBDA m, g :
    [i \in 1..Len(m) |->
        IF m[i].isParam /\ m[i].requires_grad
        THEN Let1(TrainableOffset(m, i), LAMBDA off :
             Let1([j \in 1..m[i].numel |-> g[off + j]], LAMBDA slice :
                [m[i] EXCEPT !.grad =
                    IF m[i].grad = None THEN slice ELSE VecAdd(m[i].grad, slice)]))
        ELSE m[i]])

\* flatten_grads(model)
RECURSIVE flatten_from(_, _)
flatten_from(m, k) ==
    IF k > Len(m) THEN <<>>
    ELSE IF m[k].isParam /\ m[k].grad # None
         THEN m[k].grad \o flatten_from(m, k + 1)
         ELSE flatten_from(m, k + 1)

flatten_grads(x) == Let1(x, LAMBDA m : flatten_from(m, 1))

\* grads[index:index+param_count] of a Python sequence (never raises; short
\* at the end of the sequence).
PySlice(grads, index, count) ==
    Let1(IF index + count > Len(grads) THEN Len(grads) ELSE index + count, LAMBDA hi :
        IF index >= hi THEN <<>> ELSE SubSeq(grads, index + 1, hi))

\* The loop of assign_grads from entry k on, `index` scalars consumed so far.
\* fault = k forces the exception of the write to entry k (.view/.clone cannot
\* allocate); .view also raises when the slice does not hold param_count
\* scalars.  The result carries the model as the loop left it.
RECURSIVE assign_from(_, _, _, _, _)
assign_from(x, grads, k, index, fault) == Let1(x, LAMBDA m :
    IF k > Len(m) THEN [ok |-> TRUE, model |-> m]
    ELSE IF m[k].grad = None THEN assign_from(m, grads, k + 1, index, fault)
    ELSE IF m[k].stat THEN assign_from(m, grads, k + 1, index, fault)
    ELSE Let1(PySlice(grads, index, m[k].numel), LAMBDA slice :
            IF fault = k \/ Len(slice) # m[k].numel
            THEN [ok |-> FALSE, model |-> m]
            ELSE assign_from([m EXCEPT ![k].grad = slice], grads, k + 1,
                             index + m[k].numel, fault)))

\* assign_grads without `index += param_count`: every parameter is written
\* from the start of the vector.
RECURSIVE assign_from_start(_, _, _, _)
assign_from_start(x, grads, k, fault) == Let1(x, LAMBDA m :
    IF k > Len(m) THEN [ok |-> TRUE, model |-> m]
    ELSE IF m[k].grad = None \/ m[k].stat THEN assign_from_start(m, grads, k + 1, fault)
    ELSE Let1(PySlice(grads, 0, m[k].numel), LAMBDA slice :
            IF fault = k \/ Len(slice) # m[k].numel
            THEN [ok |-> FALSE, model |-> m]
            ELSE assign_from_start([m EXCEPT ![k].grad = slice], grads, k + 1, fault)))

assign_grads_no_advance(x, y, fault) == Let2(x, y, LAMBDA m, grads :
    assign_from_start(m, grads, 1, fault))

\* assign_grads(model, grads); model.load_state_dict(state_dict) copies every
\* tensor onto itself and changes nothing.
assign_grads(x, y, fault) == Let2(x, y, LAMBDA m, grads :
    assign_from(m, grads, 1, 0, fault))

\* optimizer.step(): consumes the gradient buffer of every trainable
\* parameter that has one.
optimizer_step(x) == Let1(x, LAMBDA m :
    [i \in 1..Len(m) |->
        IF m[i].isParam /\ m[i].requires_grad /\ m[i].grad # None
        THEN [m[i] EXCEPT !.value = Append(m[i].value, m[i].grad)]
        ELSE m[i]])

\* ------------------------------------------------- convergence and mixing
\* The moving average constructed as 0, like ema_lb0 and ema_lb.
InitEmaZero == <<0, 1>>

\* self.ema_lb_old = 0.45
InitEma == Q(9, 20)

\* the target floor 0.2 and the gain 3 of the convergence signal
Floor == Q(1, 5)
Gain == Q(3, 1)

\* The weights of the recurrence exchanged.
ema_update_swapped(b, old, loss) == Add(Mul(Sub(One, b), old), Mul(b, loss))

\* The moving average restarted from its construction value at every update.
ema_update_reset(b, old, loss) == Add(Mul(b, InitEma), Mul(Sub(One, b), loss))

\* self.beta * self.ema_lb_old + (1 - self.beta) * losses_base
ema_update(b, old, loss) == Add(Mul(b, old), Mul(Sub(One, b), loss))

\* The signal normalised by the floor instead of the moving average.
convergence_signal_by_floor(x) ==
    Let1(x, LAMBDA ema : Div(Mul(Gain, Sub(ema, Floor)), Floor))

\* 3 * (self.ema_lb_old - 0.2) / self.ema_lb_old
convergence_signal(x) == Let1(x, LAMBDA ema : Div(Mul(Gain, Sub(ema, Floor)), ema))

\* The projection coefficient itself, without the `1 -`.
angle_signal_projection(x, y) == Let2(x, y, LAMBDA grad_base, grad_novel :
    Div(Dot(grad_base, grad_novel), SquaredNorm(grad_base)))

\* 1 - torch.dot(grad_base, grad_novel) / torch.square(torch.norm(grad_base))
angle_signal(x, y) == Let2(x, y, LAMBDA grad_base, grad_novel :
    Sub(One, Div(Dot(grad_base, grad_novel), SquaredNorm(grad_base))))

\* min in place of max.
PyMin(x, y) == Let2(x, y, LAMBDA a, b : IF Gt(a, b) THEN b ELSE a)

\* Python's max(a, b): b when b > a, else a (so a when either is NaN).
PyMax(x, y) == Let2(x, y, LAMBDA a, b : IF Gt(b, a) THEN b ELSE a)

\* grad_base = dynamic_lambda * grad_base; new_grad = grad_base + grad_novel
combine(grad_base, grad_novel, dynamic_lambda) ==
    VecAdd(Scale(dynamic_lambda, grad_base), grad_novel)

\* ------------------------------------------------------------ inputs
V(a, b) == <<Q(a, 1), Q(b, 1)>>

\* The base data loader, a cyclic sequence of batches.  A batch is given by
\* what model(data, is_base=True) and the backward pass produce for it: the
\* summed loss and its gradient.
BaseStream ==
    << [loss |-> Q(19, 20), grad |-> V(1, 1)],
       [loss |-> Q(3, 10), grad |-> V(1, 0)],
       [loss |-> Q(1, 5), grad |-> V(0, 1)],
       [loss |-> Q(1, 10), grad |-> V(1, 0)],
       [loss |-> Zero, grad |-> V(0, 0)] >>

\* The novel data loader, likewise.
NovelStream ==
    << [loss |-> Q(1, 2), grad |-> V(1, 0)],
       [loss |-> Q(1, 2), grad |-> V(0, 1)],
       [loss |-> Q(3, 2), grad |-> V(-1, 0)] >>

\* next(iterator) of a cyclic loader: the position after pos.
Advance(stream, pos) == (pos % Len(stream)) + 1

\* cfg.DYNAMIC.BETA
Betas == {Zero, Q(9, 10)}

\* self.start_iter: 0, or the iteration after a resumed checkpoint's.
StartIters == {0, Ceiling}

\* ------------------------------------------------------------ hooks
\* An entry of the list that build_hooks returns: None, or a hook, given by
\* its class.
Hook(name) == <<name>>

\* build_hooks with the evaluation hook appended before the checkpointer.
build_hooks_eval_first(main, precise, bn) ==
    << Hook("IterationTimer"), Hook("LRScheduler"),
       IF precise /\ bn THEN Hook("PreciseBN") ELSE None >>
    \o <<Hook("EvalHookDeFRCN")>>
    \o (IF main THEN <<Hook("PeriodicCheckpointer")>> ELSE <<>>)
    \o (IF main THEN <<Hook("PeriodicWriter")>> ELSE <<>>)

\* DefaultTrainer.build_hooks
build_hooks(main, precise, bn) ==
    << Hook("IterationTimer"), Hook("LRScheduler"),
       IF precise /\ bn THEN Hook("PreciseBN") ELSE None >>
    \o (IF main THEN <<Hook("PeriodicCheckpointer")>> ELSE <<>>)
    \o <<Hook("EvalHookDeFRCN")>>
    \o (IF main THEN <<Hook("PeriodicWriter")>> ELSE <<>>)

\* self.register_hooks(...): the entries that are not None, in their order.
register_hooks(ret) == SelectSeq(ret, LAMBDA h : h # None)

\* after_step of the training loop: every registered hook's after_step, in
\* the order of registration.
after_step(hs) == [i \in 1..Len(hs) |-> hs[i][1]]

\* ------------------------------------------------------------ state
VARIABLES
    iter,          \* self.iter, the index of the iteration the loop runs next
    start_iter,    \* self.start_iter
    max_iter,      \* self.max_iter = cfg.SOLVER.MAX_ITER
    beta,          \* self.beta
    ema_lb0,       \* self.ema_lb0
    ema_lb,        \* self.ema_lb
    ema_lb_old,    \* self.ema_lb_old
    model,         \* self.model: parameters, buffers and gradient buffers
    training,      \* self.model.training
    opt_steps,     \* completed optimizer.step() calls
    novel_pos,     \* self._data_loader_iter: the batch that next() returns
    base_pos,      \* self._base_loader_iter: the batch that next() returns
    novel_drawn,   \* batches drawn from self._data_loader_iter
    base_drawn,    \* batches drawn from self._base_loader_iter
    storage,       \* put_scalar calls per key of the event storage
    mix,           \* locals of the latest run_step that reached the mixing block
    events,        \* what the latest run_step did, in order
    outcome,       \* how the latest run_step ended
    crashed,       \* the exception that left run_step and ended train(), or "none"
    is_main,       \* comm.is_main_process()
    precise_bn,    \* cfg.TEST.PRECISE_BN.ENABLED
    has_bn,        \* get_bn_modules(self.model) is not empty
    hooks,         \* the registered hooks, in the order they are called
    hook_log       \* the hooks whose after_step ran in the latest loop iteration

vars == <<iter, start_iter, max_iter, beta, ema_lb0, ema_lb, ema_lb_old, model,
          training, opt_steps, novel_pos, base_pos, novel_drawn, base_drawn, storage,
          mix, events, outcome, crashed, is_main, precise_bn, has_bn, hooks, hook_log>>

NoMix ==
    [valid |-> FALSE, at |-> 0, loss_base |-> Zero, ema_prev |-> Zero, ema |-> Zero,
     general_converge |-> Zero, angle_base |-> Zero, dynamic_lambda |-> Zero,
     grad_base |-> <<>>, grad_novel |-> <<>>, new_grad |-> <<>>]

\* What the constructor does not take from its inputs.
Constructed ==
    /\ iter = start_iter
    /\ ema_lb0 = Zero
    /\ ema_lb = Zero
    /\ ema_lb_old = InitEma
    /\ training = TRUE
    /\ opt_steps = 0
    /\ novel_drawn = 0
    /\ base_drawn = 0
    /\ storage = [loss_n |-> 0, loss_b |-> 0]
    /\ mix = NoMix
    /\ events = <<>>
    /\ outcome = "none"
    /\ crashed = "none"
    /\ hooks = register_hooks(build_hooks(is_main, precise_bn, has_bn))
    /\ hook_log = <<>>

\* DefaultTrainer.__init__ followed by resume_or_load.
Init ==
    /\ start_iter \in StartIters
    /\ max_iter \in {start_iter + n : n \in 1..MaxSteps}
    /\ beta \in Betas
    /\ model \in {build_model(l) : l \in Layouts}
    /\ novel_pos \in 1..Len(NovelStream)
    /\ base_pos \in 1..Len(BaseStream)
    /\ is_main = TRUE
    /\ precise_bn = TRUE
    /\ has_bn = TRUE
    /\ Constructed

\* The same, for every process of a distributed run and every setting of
\* PreciseBN, of a run resumed at the ceiling.
HookInit ==
    /\ start_iter = Ceiling
    /\ max_iter = start_iter + MaxSteps
    /\ beta = Q(9, 10)
    /\ model = build_model(LayoutA)
    /\ novel_pos = 1
    /\ base_pos = 1
    /\ is_main \in BOOLEAN
    /\ precise_bn \in BOOLEAN
    /\ has_bn \in BOOLEAN
    /\ Constructed

\* ------------------------------------------------------------ run_step
\* The loop of train(): `for self.iter in range(start_iter, max_iter)`, left
\* by the first exception that run_step lets through.
Running == crashed = "none" /\ iter < max_iter

\* The ceiling test off by one.
PastCeilingLate(it) == it > Ceiling + 1

\* The ceiling test with >= for >.
PastCeilingInclusive(it) == it >= Ceiling

\* `if self.iter > 8000: return`
PastCeiling(it) == it > Ceiling

\* The first iteration of this run rather than iteration 0.
IsFirstIterOfRun(it) == it = start_iter

\* `if self.iter == 0:`
IsFirstIter(it) == it = 0

\* A try block around the whole novel pass.
NovelTryCoversAll(stage) == stage \in {"forward", "backward"}

\* No try block around the novel pass.
NovelTryCoversNone(stage) == FALSE

\* The try block of the novel stream encloses the forward call only.
NovelTryCovers(stage) == stage = "forward"

\* A try block around assign_grads only.
ApplyTryCoversAssign(stage) == stage = "assign"

\* No try block at the end.
ApplyTryCoversNone(stage) == FALSE

\* The try block at the end encloses assign_grads and optimizer.step().
ApplyTryCovers(stage) == stage \in {"assign", "step"}

\* An exception raised in run_step: a bare `except` that encloses the raising
\* statement ends the call normally and the loop goes on to the next
\* iteration; otherwise the exception leaves run_step and ends the run.
Raise(caught) ==
    /\ IF caught
       THEN iter' = iter + 1 /\ crashed' = "none" /\ hook_log' = after_step(hooks)
       ELSE iter' = iter /\ crashed' = "Exception" /\ hook_log' = <<>>
    /\ UNCHANGED <<is_main, precise_bn, has_bn, hooks>>

Entered == Running /\ ~PastCeiling(iter) /\ training

\* The statements up to the capture of grad_novel.
EvNovel ==
    <<"zero_grad", "next_novel", "forward_novel", "backward_novel",
      "put_loss_n", "flatten_novel">>

\* ... and up to the capture of grad_base.
EvBase ==
    EvNovel \o <<"zero_grad", "next_base", "forward_base", "backward_base",
                 "put_loss_b", "flatten_base">>

\* data = next(self._data_loader_iter)
NextNovel ==
    /\ novel_pos' = Advance(NovelStream, novel_pos)
    /\ novel_drawn' = novel_drawn + 1

\* The base iterator made anew for every draw: iter(self.base_loader) in
\* run_step instead of the constructor.
NextBaseRestart ==
    /\ base_pos' = Advance(BaseStream, 1)
    /\ base_drawn' = base_drawn + 1

\* data_base = next(self._base_loader_iter)
NextBase ==
    /\ base_pos' = Advance(BaseStream, base_pos)
    /\ base_drawn' = base_drawn + 1

\* The model after the novel pass, and after the base pass that follows it.
AfterNovel(m, nb) == backward(zero_grad(m), nb.grad)

\* The base pass without the gradient clear before it.
AfterBaseAccumulated(m, nb, bb) == backward(AfterNovel(m, nb), bb.grad)

AfterBase(m, nb, bb) == backward(zero_grad(AfterNovel(m, nb)), bb.grad)

\* The mixing block (`with torch.no_grad():` ... `new_grad = ...`).
Mixing(it, b, old, loss, x, y) == Let2(x, y, LAMBDA grad_base, grad_novel :
    Let2(ema_update(b, old, loss), angle_signal(grad_base, grad_novel),
         LAMBDA ema, angle_base :
    Let1(convergence_signal(ema), LAMBDA general_converge :
    Let1(PyMax(general_converge, angle_base), LAMBDA dynamic_lambda :
        [valid |-> TRUE, at |-> it, loss_base |-> loss, ema_prev |-> old, ema |-> ema,
         general_converge |-> general_converge, angle_base |-> angle_base,
         dynamic_lambda |-> dynamic_lambda, grad_base |-> grad_base,
         grad_novel |-> grad_novel,
         new_grad |-> combine(grad_base, grad_novel, dynamic_lambda)]))))

\* iter > 8000: run_step returns at once.
StepCeiling ==
    /\ Running
    /\ PastCeiling(iter)
    /\ iter' = iter + 1
    /\ events' = <<>>
    /\ outcome' = "ceiling"
    /\ hook_log' = after_step(hooks)
    /\ UNCHANGED <<is_main, precise_bn, has_bn, hooks>>
    /\ UNCHANGED <<start_iter, max_iter, beta, ema_lb0, ema_lb, ema_lb_old, model,
                   training, opt_steps, novel_pos, base_pos, novel_drawn, base_drawn,
                   storage, mix, crashed>>

\* `assert self.model.training` fails.
StepAssertFail ==
    /\ Running
    /\ ~PastCeiling(iter)
    /\ ~training
    /\ crashed' = "AssertionError"
    /\ events' = <<>>
    /\ outcome' = "assert"
    /\ hook_log' = <<>>
    /\ UNCHANGED <<is_main, precise_bn, has_bn, hooks>>
    /\ UNCHANGED <<iter, start_iter, max_iter, beta, ema_lb0, ema_lb, ema_lb_old, model,
                   training, opt_steps, novel_pos, base_pos, novel_drawn, base_drawn,
                   storage, mix>>

\* self.model(data, is_base=False) raises.
StepNovelForwardException ==
    /\ Entered
    /\ model' = zero_grad(model)
    /\ NextNovel
    /\ Raise(NovelTryCovers("forward"))
    /\ events' = <<"zero_grad", "next_novel", "forward_novel_raises">>
    /\ outcome' = "novel_forward_exception"
    /\ UNCHANGED <<start_iter, max_iter, beta, ema_lb0, ema_lb, ema_lb_old, training,
                   opt_steps, base_pos, base_drawn, storage, mix>>

\* losses_novel.backward() raises, before or after it reached the buffers.
StepNovelBackwardException ==
    /\ Entered
    /\ model' \in {zero_grad(model), AfterNovel(model, NovelStream[novel_pos])}
    /\ NextNovel
    /\ Raise(NovelTryCovers("backward"))
    /\ events' = <<"zero_grad", "next_novel", "forward_novel", "backward_novel_raises">>
    /\ outcome' = "novel_backward_exception"
    /\ UNCHANGED <<start_iter, max_iter, beta, ema_lb0, ema_lb, ema_lb_old, training,
                   opt_steps, base_pos, base_drawn, storage, mix>>

\* The base forward or backward pass raises (the latter before or after it
\* reached the buffers): no try block encloses them.
StepBaseException ==
    /\ Entered
    /\ \E stage \in {"forward", "backward"} :
          /\ model' \in
                {zero_grad(AfterNovel(model, NovelStream[novel_pos]))} \cup
                (IF stage = "forward" THEN {}
                 ELSE {AfterBase(model, NovelStream[novel_pos], BaseStream[base_pos])})
          /\ events' = EvNovel \o
                (IF stage = "forward"
                 THEN <<"zero_grad", "next_base", "forward_base_raises">>
                 ELSE <<"zero_grad", "next_base", "forward_base", "backward_base_raises">>)
    /\ NextNovel
    /\ NextBase
    /\ storage' = [storage EXCEPT !.loss_n = @ + 1]
    /\ Raise(FALSE)
    /\ outcome' = "base_exception"
    /\ UNCHANGED <<start_iter, max_iter, beta, ema_lb0, ema_lb, ema_lb_old, training,
                   opt_steps, mix>>

\* What every run_step that reaches the mixing block does before the final try.
\* m is the model after the base pass.
ReachApply(m, nb, bb) ==
    /\ NextNovel
    /\ NextBase
    /\ storage' = [loss_n |-> storage.loss_n + 1, loss_b |-> storage.loss_b + 1]
    /\ ema_lb0' = IF IsFirstIter(iter) THEN bb.loss ELSE ema_lb0
    /\ ema_lb' = IF IsFirstIter(iter) THEN bb.loss ELSE ema_lb
    /\ mix' = Mixing(iter, beta, ema_lb_old, bb.loss, flatten_grads(m),
                     flatten_grads(AfterNovel(model, nb)))
    /\ ema_lb_old' = mix'.ema
    /\ UNCHANGED <<start_iter, max_iter, beta, training>>

\* The whole of run_step, nothing raising.
StepFull ==
    /\ Entered
    /\ \E nb \in {NovelStream[novel_pos]}, bb \in {BaseStream[base_pos]} :
          \E m \in {AfterBase(model, nb, bb)} :
             /\ ReachApply(m, nb, bb)
             /\ \E r \in {assign_grads(m, mix'.new_grad, 0)} :
                   /\ r.ok
                   /\ model' = optimizer_step(r.model)
    /\ opt_steps' = opt_steps + 1
    /\ iter' = iter + 1
    /\ events' = EvBase \o <<"mix", "assign", "step">>
    /\ outcome' = "full"
    /\ hook_log' = after_step(hooks)
    /\ UNCHANGED <<crashed, is_main, precise_bn, has_bn, hooks>>

\* assign_grads raises at one of the entries it writes.
StepAssignException ==
    /\ Entered
    /\ \E nb \in {NovelStream[novel_pos]}, bb \in {BaseStream[base_pos]},
          fault \in 1..Len(model) :
          \E m \in {AfterBase(model, nb, bb)} :
             /\ ReachApply(m, nb, bb)
             /\ \E r \in {assign_grads(m, mix'.new_grad, fault)} :
                   /\ ~r.ok
                   /\ model' = r.model
    /\ Raise(ApplyTryCovers("assign"))
    /\ events' = EvBase \o
          (IF ApplyTryCovers("assign") THEN <<"mix", "assign_raises", "print_eoor">>
           ELSE <<"mix", "assign_raises">>)
    /\ outcome' = "assign_exception"
    /\ UNCHANGED opt_steps

\* optimizer.step() raises: it applied nothing.
StepOptimizerException ==
    /\ Entered
    /\ \E nb \in {NovelStream[novel_pos]}, bb \in {BaseStream[base_pos]} :
          \E m \in {AfterBase(model, nb, bb)} :
             /\ ReachApply(m, nb, bb)
             /\ \E r \in {assign_grads(m, mix'.new_grad, 0)} :
                   /\ r.ok
                   /\ model' = r.model
    /\ Raise(ApplyTryCovers("step"))
    /\ events' = EvBase \o
          (IF ApplyTryCovers("step") THEN <<"mix", "assign", "step_raises", "print_eoor">>
           ELSE <<"mix", "assign", "step_raises">>)
    /\ outcome' = "step_exception"
    /\ UNCHANGED opt_steps

\* A collaborator leaves the model in eval mode between two iterations
\* ("model was changed to eval mode!").
ExternalEval ==
    /\ Running
    /\ training
    /\ training' = FALSE
    /\ UNCHANGED <<iter, start_iter, max_iter, beta, ema_lb0, ema_lb, ema_lb_old, model,
                   opt_steps, novel_pos, base_pos, novel_drawn, base_drawn, storage, mix,
                   events, outcome, crashed, is_main, precise_bn, has_bn, hooks,
                   hook_log>>

Next ==
    \/ StepCeiling
    \/ StepAssertFail
    \/ StepNovelForwardException
    \/ StepNovelBackwardException
    \/ StepBaseException
    \/ StepFull
    \/ StepAssignException
    \/ StepOptimizerException
    \/ ExternalEval

Spec == Init /\ [][Next]_vars

HookSpec == HookInit /\ [][Next]_vars

\* ------------------------------------------------------------ properties
\* A call of run_step ended in this step (it returned or raised).
Invoked == iter' # iter \/ crashed' # crashed

IsZeroVec(g) == \A i \in 1..Len(g) : g[i] = Zero

\* The slice of the flat vector v that belongs to entry i of model m.
SliceOf(m, v, i) ==
    [j \in 1..m[i].numel |-> v[TrainableOffset(m, i) + j]]

IsTrainable(m, i) == m[i].isParam /\ m[i].requires_grad

\* C1: whenever run_step reaches the final try block, the vector handed to
\* assign_grads is dynamic_lambda * grad_base + grad_novel with
\* dynamic_lambda one of general_converge and angle_base and never below
\* general_converge; what has been written into the gradient buffers is that
\* vector, and a completed optimizer step consumed exactly it.  For
\* grad_base = [1,0], grad_novel = [0,1], general_converge = 1.75 it is [1.75, 1].
C1_MixedGradient ==
    outcome \in {"full", "assign_exception", "step_exception"} =>
        /\ mix.valid
        /\ mix.dynamic_lambda \in {mix.general_converge, mix.angle_base}
        /\ Geq(mix.dynamic_lambda, mix.general_converge)
        /\ ~IsNaN(mix.angle_base) => Geq(mix.dynamic_lambda, mix.angle_base)
        /\ Len(mix.new_grad) = Len(mix.grad_base)
        /\ \A i \in 1..Len(mix.new_grad) :
              mix.new_grad[i] =
                  Add(Mul(mix.dynamic_lambda, mix.grad_base[i]), mix.grad_novel[i])
        /\ \A i \in 1..Len(model) :
              IF ~IsTrainable(model, i) THEN model[i].grad = None
              ELSE IF outcome = "assign_exception"
              THEN model[i].grad \in {SliceOf(model, mix.new_grad, i),
                                      SliceOf(model, mix.grad_base, i)}
              ELSE model[i].grad = SliceOf(model, mix.new_grad, i)
        /\ outcome = "full" =>
              \A i \in 1..Len(model) :
                 IsTrainable(model, i) =>
                    model[i].value[Len(model[i].value)] = SliceOf(model, mix.new_grad, i)
        /\ (mix.grad_base = V(1, 0) /\ mix.grad_novel = V(0, 1)
            /\ mix.general_converge = Q(7, 4)) => mix.new_grad = <<Q(7, 4), One>>

C1_Witness ==
    /\ outcome = "full"
    /\ mix.grad_base = V(1, 0)
    /\ mix.grad_novel = V(0, 1)
    /\ mix.general_converge = Q(7, 4)
    /\ flatten_grads(model) = <<Q(7, 4), One>>

\* C2: a run_step invoked with the iteration counter above 8000 changes no
\* gradient buffer and no parameter value and takes no optimizer step,
\* whatever the batches and the configured max_iter.
C2_CeilingNoOp ==
    [][(iter > Ceiling /\ Invoked) =>
          /\ Grads(model') = Grads(model)
          /\ Values(model') = Values(model)
          /\ opt_steps' = opt_steps
          /\ crashed' = "none"]_vars

C2_Witness ==
    /\ outcome = "ceiling"
    /\ iter = Ceiling + 2
    /\ opt_steps = 1
    /\ flatten_grads(model) # <<>>

C4_ForwardExceptionSkips ==
    [][(Invoked /\ outcome' = "novel_forward_exception") =>
          /\ crashed' = "none"
          /\ iter' = iter + 1
          /\ opt_steps' = opt_steps
          /\ Values(model') = Values(model)
          /\ storage' = storage
          /\ base_drawn' = base_drawn]_vars

C4_Witness ==
    /\ outcome = "novel_forward_exception"
    /\ crashed = "none"
    /\ opt_steps = 1
    /\ storage.loss_n = 1

C6_RoundTrip ==
    outcome \in {"full", "step_exception"} =>
        /\ flatten_grads(model) = mix.new_grad
        /\ Len(mix.new_grad) = TrainableOffset(model, Len(model) + 1)

C6_Witness ==
    /\ outcome \in {"full", "step_exception"}
    /\ Len(model) = Len(LayoutA)
    /\ mix.new_grad[1] # mix.new_grad[2]
    /\ flatten_grads(model) = mix.new_grad

\* C7: every run_step that reaches the mixing block sets ema_lb_old to
\* beta * ema_lb_old + (1 - beta) * loss_base and derives the convergence
\* signal of that iteration from the new value; beta = 0.9, ema_lb_old = 0.5,
\* loss_base = 0.3 give 0.48.
C7_EmaRecurrence ==
    mix.valid =>
        /\ mix.ema = Add(Mul(beta, mix.ema_prev), Mul(Sub(One, beta), mix.loss_base))
        /\ ema_lb_old = mix.ema
        /\ mix.general_converge = Div(Mul(Gain, Sub(ema_lb_old, Floor)), ema_lb_old)
        /\ (beta = Q(9, 10) /\ mix.ema_prev = Q(1, 2) /\ mix.loss_base = Q(3, 10))
              => ema_lb_old = Q(12, 25)

C7_Witness ==
    /\ mix.valid
    /\ beta = Q(9, 10)
    /\ mix.ema_prev = Q(1, 2)
    /\ mix.loss_base = Q(3, 10)
    /\ ema_lb_old = Q(12, 25)

\* C8 as stated: after the first update of a run, ema_lb_old and ema_lb0 are
\* both that iteration's loss_base.
C8_Original ==
    (mix.valid /\ storage.loss_b = 1) =>
        /\ ema_lb_old = mix.loss_base
        /\ ema_lb0 = mix.loss_base

\* C8 amended: the first update of a run computes ema_lb_old by the
\* recurrence from its construction value 0.45; ema_lb0 and ema_lb are set to
\* loss_base when that update happens at iteration 0 and keep their
\* construction value 0 otherwise.
C8_FirstUpdate ==
    (mix.valid /\ storage.loss_b = 1) =>
        /\ ema_lb_old = Add(Mul(beta, InitEma), Mul(Sub(One, beta), mix.loss_base))
        /\ mix.at = 0 => (ema_lb0 = mix.loss_base /\ ema_lb = mix.loss_base)
        /\ mix.at # 0 => (ema_lb0 = Zero /\ ema_lb = Zero)

C8_Witness ==
    /\ mix.valid
    /\ storage.loss_b = 1
    /\ mix.at = 0
    /\ ema_lb0 = mix.loss_base
    /\ ema_lb_old # mix.loss_base

\* C9: the convergence signal is 0 at ema = 0.2, positive and increasing in
\* ema above 0.2, negative for 0 < ema < 0.2, and 1.75 at ema = 0.48.
C9_ConvergenceSignal ==
    /\ [](mix.valid =>
            /\ mix.ema = Floor => mix.general_converge = Zero
            /\ Gt(mix.ema, Floor) => Gt(mix.general_converge, Zero)
            /\ (Gt(mix.ema, Zero) /\ Gt(Floor, mix.ema)) => Gt(Zero, mix.general_converge)
            /\ mix.ema = Q(12, 25) => mix.general_converge = Q(7, 4))
    /\ [][(mix.valid /\ mix'.valid) =>
             /\ (Gt(mix.ema, Floor) /\ Gt(mix'.ema, mix.ema))
                   => Gt(mix'.general_converge, mix.general_converge)
             /\ (Gt(mix'.ema, Floor) /\ Gt(mix.ema, mix'.ema))
                   => Gt(mix.general_converge, mix'.general_converge)]_vars

C9_Witness ==
    /\ mix.valid
    /\ mix.ema = Q(12, 25)
    /\ mix.general_converge = Q(7, 4)

\* C10 as stated: angle_base is 0 when grad_novel = grad_base is nonzero, and
\* 1 whenever dot(grad_base, grad_novel) = 0.
C10_Original ==
    mix.valid =>
        /\ (mix.grad_novel = mix.grad_base /\ ~IsZeroVec(mix.grad_base))
              => mix.angle_base = Zero
        /\ Dot(mix.grad_base, mix.grad_novel) = Zero => mix.angle_base = One

\* C10 amended: angle_base is 0 when grad_novel = grad_base is nonzero, and 1
\* whenever dot(grad_base, grad_novel) = 0 and grad_base is nonzero; for
\* grad_base = 0 the quotient is 0/0 and angle_base is NaN.
C10_AngleSignal ==
    mix.valid =>
        /\ (mix.grad_novel = mix.grad_base /\ ~IsZeroVec(mix.grad_base))
              => mix.angle_base = Zero
        /\ (Dot(mix.grad_base, mix.grad_novel) = Zero /\ ~IsZeroVec(mix.grad_base))
              => mix.angle_base = One
        /\ IsZeroVec(mix.grad_base) => IsNaN(mix.angle_base)

C10_Witness ==
    /\ mix.valid
    /\ ~IsZeroVec(mix.grad_base)
    /\ ~IsZeroVec(mix.grad_novel)
    /\ Dot(mix.grad_base, mix.grad_novel) = Zero
    /\ mix.angle_base = One

\* The phase of the iteration that a statement of run_step belongs to; the
\* two gradient clears open the phase of the statement that follows them.
PhaseOf(e) ==
    CASE e \in {"next_novel", "forward_novel", "forward_novel_raises", "backward_novel",
                "backward_novel_raises", "put_loss_n", "flatten_novel"}
            -> "NovelForwardBackward"
      [] e \in {"next_base", "forward_base", "forward_base_raises", "backward_base",
                "backward_base_raises", "put_loss_b", "flatten_base"}
            -> "BaseForwardBackward"
      [] e = "mix" -> "Mix"
      [] e \in {"assign", "assign_raises", "step", "step_raises", "print_eoor"}
            -> "Apply"
      [] OTHER -> "Idle"

RECURSIVE PathFrom(_, _, _)
PathFrom(ev, k, last) ==
    IF k > Len(ev) THEN <<>>
    ELSE IF PhaseOf(ev[k]) \in {"Idle", last} THEN PathFrom(ev, k + 1, last)
    ELSE <<PhaseOf(ev[k])>> \o PathFrom(ev, k + 1, PhaseOf(ev[k]))

\* The phases that the statements ev went through, in order.
Path(ev) == PathFrom(ev, 1, "Idle")

FullPath == <<"NovelForwardBackward", "BaseForwardBackward", "Mix", "Apply">>

\* C11 as stated: every invocation of run_step returns to Idle (the loop goes
\* on to the next iteration, the run is not ended) along the full path, from
\* NovelForwardBackward, from Apply, or at once past the ceiling.
C11_Original ==
    [][Invoked =>
          /\ crashed' = "none"
          /\ iter' = iter + 1
          /\ \/ Path(events') = FullPath
             \/ Path(events') = <<"NovelForwardBackward">>
             \/ Path(events') = <<>> /\ PastCeiling(iter)]_vars

\* C11 (amended): every invocation of run_step takes exactly one of seven
\* exits.  Four return to Idle and the loop goes on: the full path; the novel
\* forward call raising (NovelForwardBackward -> Idle); assign_grads or the
\* optimizer step raising (Apply -> Idle); the bypass past the ceiling.  Three
\* end the run with the iteration counter where it was: the failed assertion
\* before any phase, an exception of the novel backward pass, and an exception
\* of the base forward or backward pass.  After such an exit run_step is not
\* invoked again.
C11_Paths ==
    /\ [][Invoked =>
            \/ /\ crashed' = "none" /\ iter' = iter + 1
               /\ \/ /\ outcome' = "full" /\ Path(events') = FullPath
                     /\ events'[Len(events')] = "step" /\ opt_steps' = opt_steps + 1
                  \/ /\ outcome' = "novel_forward_exception"
                     /\ Path(events') = <<"NovelForwardBackward">>
                     /\ events'[Len(events')] = "forward_novel_raises"
                     /\ opt_steps' = opt_steps
                  \/ /\ outcome' \in {"assign_exception", "step_exception"}
                     /\ Path(events') = FullPath
                     /\ events'[Len(events')] = "print_eoor" /\ opt_steps' = opt_steps
                  \/ /\ outcome' = "ceiling" /\ Path(events') = <<>> /\ PastCeiling(iter)
                     /\ opt_steps' = opt_steps
            \/ /\ crashed' # "none" /\ crashed = "none" /\ iter' = iter
               /\ opt_steps' = opt_steps
               /\ \/ /\ outcome' = "assert" /\ Path(events') = <<>>
                     /\ crashed' = "AssertionError" /\ ~PastCeiling(iter)
                  \/ /\ outcome' = "novel_backward_exception"
                     /\ Path(events') = <<"NovelForwardBackward">>
                     /\ events'[Len(events')] = "backward_novel_raises"
                  \/ /\ outcome' = "base_exception"
                     /\ Path(events') = <<"NovelForwardBackward", "BaseForwardBackward">>
                     /\ events'[Len(events')] \in
                           {"forward_base_raises", "backward_base_raises"}]_vars
    /\ [][crashed # "none" => UNCHANGED vars]_vars

\* The base pass raised in an iteration that followed a completed one: the
\* run ended in BaseForwardBackward.
C11_Witness ==
    /\ outcome = "base_exception"
    /\ crashed = "Exception"
    /\ iter > start_iter
    /\ opt_steps > 0
    /\ Path(events) = <<"NovelForwardBackward", "BaseForwardBackward">>

\* C12 as stated: after any sequence of run_step invocations the two streams
\* have been drawn from equally often.
C12_Original == novel_drawn = base_drawn

\* C12 (amended): the streams are consumed in lock-step only by the
\* invocations that get past the novel pass.  Every invocation draws at most
\* one batch from each stream, each draw moving that stream on by one batch,
\* and never a base batch without a novel batch; an invocation that reaches
\* the base pass draws one of each; a bypassed invocation and one that fails
\* the assertion draw none; an invocation that ends in the novel pass (forward
\* call raising, or backward pass raising) draws a novel batch and no base
\* batch.  So the base draws never exceed the novel draws, and equal the
\* number of invocations that got past the novel pass (one loss_n record each).
C12_LockStep ==
    /\ [](base_drawn <= novel_drawn /\ base_drawn = storage.loss_n)
    /\ [][Invoked =>
            /\ novel_drawn' - novel_drawn \in {0, 1}
            /\ base_drawn' - base_drawn \in {0, 1}
            /\ novel_pos' = IF novel_drawn' = novel_drawn THEN novel_pos
                            ELSE (novel_pos % Len(NovelStream)) + 1
            /\ base_pos' = IF base_drawn' = base_drawn THEN base_pos
                           ELSE (base_pos % Len(BaseStream)) + 1
            /\ (outcome' \in {"ceiling", "assert"})
                  <=> (novel_drawn' = novel_drawn /\ base_drawn' = base_drawn)
            /\ (outcome' \in {"novel_forward_exception", "novel_backward_exception"})
                  <=> (novel_drawn' = novel_drawn + 1 /\ base_drawn' = base_drawn)
            /\ (outcome' \in {"base_exception", "full", "assign_exception",
                              "step_exception"})
                  <=> (novel_drawn' = novel_drawn + 1 /\ base_drawn' = base_drawn + 1)]_vars
    /\ [][~Invoked => UNCHANGED <<novel_drawn, base_drawn, novel_pos, base_pos>>]_vars

\* A full iteration after a skipped one: the novel stream stays one batch
\* ahead of the base stream.
C12_Witness ==
    /\ outcome = "full"
    /\ crashed = "none"
    /\ base_drawn > 0
    /\ novel_drawn > base_drawn

\* The run_step invocations of the run so far.
Invocations == (iter - start_iter) + (IF crashed = "none" THEN 0 ELSE 1)

\* The position the base iterator had at construction.
FirstBasePos ==
    ((base_drawn * (Len(BaseStream) - 1) + base_pos - 1) % Len(BaseStream)) + 1

\* The recurrence applied k times to e, over the base batches from pos on.
RECURSIVE EmaAfter(_, _, _)
EmaAfter(k, pos, e) ==
    IF k = 0 THEN e
    ELSE EmaAfter(k - 1, (pos % Len(BaseStream)) + 1,
                  Add(Mul(beta, e), Mul(Sub(One, beta), BaseStream[pos].loss)))

\* C13 as stated: every invocation of run_step, whatever its outcome, applies
\* the recurrence to ema_lb_old once.
C13_Original ==
    [][Invoked =>
          ema_lb_old' = Add(Mul(beta, ema_lb_old),
                            Mul(Sub(One, beta), BaseStream[base_pos].loss))]_vars

\* C13 (amended): ema_lb_old is never reset and changes only by the
\* recurrence, which is applied once in each invocation that reaches the
\* mixing block (the full path and the Apply failures) and not at all in the
\* others (bypass, failed assertion, novel or base pass raising).  After N
\* invocations it has been applied as often as a base loss was recorded, at
\* most N times, starting from 0.45.
C13_EmaEveryMix ==
    /\ [](/\ storage.loss_b <= Invocations
          /\ ema_lb_old = EmaAfter(storage.loss_b, FirstBasePos, InitEma))
    /\ [][Invoked =>
            IF outcome' \in {"full", "assign_exception", "step_exception"}
            THEN /\ storage'.loss_b = storage.loss_b + 1
                 /\ ema_lb_old' = Add(Mul(beta, ema_lb_old),
                                      Mul(Sub(One, beta), BaseStream[base_pos].loss))
            ELSE /\ storage'.loss_b = storage.loss_b
                 /\ ema_lb_old' = ema_lb_old]_vars
    /\ [][~Invoked => ema_lb_old' = ema_lb_old]_vars

\* Two updates with an iteration between them that did not update.
C13_Witness ==
    /\ Invocations = 3
    /\ storage.loss_b = 2
    /\ outcome = "full"
    /\ beta # Zero
    /\ ema_lb_old # InitEma
    /\ ema_lb_old # mix.loss_base

\* The places of hook h in the sequence of names l.
Places(l, h) == {i \in 1..Len(l) : l[i] = h}

\* Every run of a comes before every run of b.
Before(l, a, b) == \A i \in Places(l, a), j \in Places(l, b) : i < j

\* The loop completed its latest iteration: run_step returned and the hooks
\* were called.
IterationCompleted ==
    crashed = "none" /\ outcome \notin {"none", "assert", "novel_backward_exception",
                                        "base_exception"}

\* C14: on every process and with PreciseBN enabled or not, the registered
\* hooks hold PreciseBN (when enabled and the model has BN modules), then
\* PeriodicCheckpointer (main process only), then EvalHookDeFRCN (always),
\* then PeriodicWriter (main process only), each at most once; and every
\* completed iteration calls them in that order.
C14_HookOrder ==
    LET reg == after_step(hooks) IN
    /\ Before(reg, "PreciseBN", "PeriodicCheckpointer")
    /\ Before(reg, "PreciseBN", "EvalHookDeFRCN")
    /\ Before(reg, "PeriodicCheckpointer", "EvalHookDeFRCN")
    /\ Before(reg, "EvalHookDeFRCN", "PeriodicWriter")
    /\ Cardinality(Places(reg, "PreciseBN")) = (IF precise_bn /\ has_bn THEN 1 ELSE 0)
    /\ Cardinality(Places(reg, "PeriodicCheckpointer")) = (IF is_main THEN 1 ELSE 0)
    /\ Cardinality(Places(reg, "EvalHookDeFRCN")) = 1
    /\ Cardinality(Places(reg, "PeriodicWriter")) = (IF is_main THEN 1 ELSE 0)
    /\ \A i \in 1..Len(hooks) : hooks[i] # None
    /\ IterationCompleted =>
          /\ hook_log = reg
          /\ Before(hook_log, "PreciseBN", "PeriodicCheckpointer")
          /\ Before(hook_log, "PeriodicCheckpointer", "EvalHookDeFRCN")
          /\ Before(hook_log, "EvalHookDeFRCN", "PeriodicWriter")
    /\ ~IterationCompleted => hook_log = <<>>

\* A completed iteration on the main process with PreciseBN: all four ran.
C14_Witness ==
    /\ is_main /\ precise_bn /\ has_bn
    /\ IterationCompleted
    /\ outcome = "full"
    /\ hook_log = <<"IterationTimer", "LRScheduler", "PreciseBN", "PeriodicCheckpointer",
                    "EvalHookDeFRCN", "PeriodicWriter">>

\* The events that C15 names, as the model logs them.
Ordered ==
    <<"zero_grad", "backward_novel", "flatten_novel", "zero_grad", "backward_base",
      "flatten_base", "assign", "step">>

\* Those of them that the latest run_step logged, in order.
Named(ev) == SelectSeq(ev, LAMBDA e : e \in {Ordered[i] : i \in 1..Len(Ordered)})

IsPrefix(a, b) == Len(a) <= Len(b) /\ a = SubSeq(b, 1, Len(a))

\* The batches that the latest draws returned.
LastBase == BaseStream[((base_pos + Len(BaseStream) - 2) % Len(BaseStream)) + 1]

LastNovel == NovelStream[((novel_pos + Len(NovelStream) - 2) % Len(NovelStream)) + 1]

ReachedMix == outcome \in {"full", "assign_exception", "step_exception"}

\* C15: a full iteration clears the gradients, runs the novel backward pass,
\* captures grad_novel, clears the gradients, runs the base backward pass,
\* captures grad_base, assigns the combined gradient and steps the optimizer,
\* in this order and once each (the clear twice); every other iteration does
\* a prefix of it.  grad_novel is the gradient of the novel batch alone and
\* grad_base that of the base batch alone.  The optimizer step is attempted
\* only after assign_grads returned, and completes only in a full iteration.
C15_EventOrder ==
    /\ [](/\ IsPrefix(Named(events), Ordered)
          /\ outcome = "full" => Named(events) = Ordered
          /\ ReachedMix =>
                /\ mix.valid
                /\ mix.grad_novel = LastNovel.grad
                /\ mix.grad_base = LastBase.grad
          /\ \A i \in 1..Len(events) :
                events[i] \in {"step", "step_raises"} =>
                   /\ i > 1
                   /\ events[i - 1] = "assign"
                   /\ flatten_grads(model) = mix.new_grad
          /\ outcome = "assign_exception" =>
                \A i \in 1..Len(events) : events[i] \notin {"step", "step_raises"})
    /\ [][opt_steps' # opt_steps =>
            /\ opt_steps' = opt_steps + 1
            /\ outcome' = "full"
            /\ Named(events') = Ordered]_vars

\* A full iteration whose two batches both have a gradient: grad_base is not
\* the sum of the two.
C15_Witness ==
    /\ outcome = "full"
    /\ opt_steps > 0
    /\ ~IsZeroVec(mix.grad_novel)
    /\ ~IsZeroVec(mix.grad_base)
    /\ mix.grad_base = LastBase.grad
    /\ mix.grad_base # VecAdd(LastBase.grad, LastNovel.grad)

\* C16: in exact arithmetic, with 0 < beta < 1 and no negative base loss,
\* ema_lb_old is positive in every state, every update starts from a positive
\* value, and the convergence signal of every update is a finite number; with
\* beta = 0 an update with base loss 0 makes ema_lb_old zero and the
\* convergence signal the quotient -0.6 / 0.
C16_EmaPositive ==
    /\ \A i \in 1..Len(BaseStream) : Geq(BaseStream[i].loss, Zero)
    /\ (Gt(beta, Zero) /\ Gt(One, beta)) =>
          /\ IsFinite(ema_lb_old)
          /\ Gt(ema_lb_old, Zero)
          /\ mix.valid =>
                /\ Gt(mix.ema_prev, Zero)
                /\ Gt(mix.ema, Zero)
                /\ IsFinite(mix.general_converge)
    /\ (beta = Zero /\ mix.valid) =>
          /\ ema_lb_old = mix.loss_base
          /\ mix.loss_base = Zero =>
                /\ ema_lb_old = Zero
                /\ mix.general_converge = NegInf

\* beta = 0 and a base loss of 0: the division by zero has happened.
C16_Witness ==
    /\ beta = Zero
    /\ ReachedMix
    /\ mix.loss_base = Zero
    /\ ema_lb_old = Zero
    /\ ~IsFinite(mix.general_converge)

\* C17: a run_step invoked with the iteration counter <= 8000 and the model in
\* eval mode raises AssertionError and has done nothing before: no gradient
\* clear, no batch draw, no metric, no update of the moving averages, no
\* optimizer step, and the counter stays.  Invoked with the counter > 8000 it
\* returns without checking the mode and without doing any of these, in eval
\* mode as in training mode, and the loop goes on.
C17_AssertBeforeWork ==
    /\ [][(Invoked /\ iter <= Ceiling /\ ~training) =>
            /\ crashed' = "AssertionError"
            /\ outcome' = "assert"
            /\ events' = <<>>
            /\ iter' = iter
            /\ UNCHANGED <<model, novel_pos, base_pos, novel_drawn, base_drawn, storage,
                           ema_lb0, ema_lb, ema_lb_old, mix, opt_steps, training>>]_vars
    /\ [][(Invoked /\ iter > Ceiling) =>
            /\ crashed' = "none"
            /\ outcome' = "ceiling"
            /\ events' = <<>>
            /\ iter' = iter + 1
            /\ UNCHANGED <<model, novel_pos, base_pos, novel_drawn, base_drawn, storage,
                           ema_lb0, ema_lb, ema_lb_old, mix, opt_steps, training>>]_vars
    /\ [][(Invoked /\ crashed' = "AssertionError") => (iter <= Ceiling /\ ~training)]_vars

\* The assertion failed at iteration 8000, the last one it guards.
C17_Witness ==
    /\ crashed = "AssertionError"
    /\ outcome = "assert"
    /\ iter = Ceiling
    /\ ~training
    /\ events = <<>>
    /\ opt_steps = 0
    /\ novel_drawn = 0

====
